---------------------------- MODULE Spec2Model ----------------------------
(***************************************************************************)
(* A model of app.py, the Streamlit student performance dashboard:         *)
(* load_model_components, prepare_student_data, the recommendation engine  *)
(* generate_detailed_recommendations, create_performance_radar and the     *)
(* page script main.                                                       *)
(*                                                                         *)
(* Numbers.  The widgets hand the script Python floats on a grid (marks in *)
(* steps of 0.1, study hours in steps of 0.5, attendance in whole          *)
(* percents).  Every number of the model is that value in hundredths, an   *)
(* integer: 9.9 is 990, 10.0 is 1000, 100.0 is 10000.  Sums and the        *)
(* ratios x / 20 * 100, x / 10 * 100, x / 5 * 100 and hours * 2.5 are      *)
(* exact on that grid.  Categorical codes and Part_Time_Job are plain      *)
(* integers.                                                               *)
(*                                                                         *)
(* Mappings.  A Python dict is a function from its keys; None is the empty *)
(* tuple.  A function that is handed a dict returns, beside its result,    *)
(* the dict as the call leaves it, so that a write through an alias of the *)
(* argument is visible to the caller.                                      *)
(***************************************************************************)
EXTENDS Integers, Sequences, FiniteSets, TLC

None == <<>>

\* whole.frac2 as hundredths: Num(9, 90) is 9.9
Num(whole, frac2) == whole * 100 + frac2

\* d[k] = v on a dict
Put(d, k, v) == [x \in (DOMAIN d) \cup {k} |-> IF x = k THEN v ELSE d[x]]

\* del d[k]
Without(d, k) == [x \in (DOMAIN d) \ {k} |-> d[x]]

\* d.get(k, default)
Get(d, k, default) == IF k \in DOMAIN d THEN d[k] ELSE default

\* the elements of a sequence
Range(s) == {s[i] : i \in DOMAIN s}

(***************************************************************************)
(* The encoder artifact: label_encoders.joblib maps a field name to a      *)
(* fitted encoder.  An encoder is the sequence of the classes it was       *)
(* fitted on; transform gives a class its position counted from 0 and      *)
(* raises ValueError for a value it has not seen.                          *)
(***************************************************************************)
transform(encoder, value) ==
    IF value \in Range(encoder)
    THEN [raised |-> "", code |-> (CHOOSE i \in DOMAIN encoder : encoder[i] = value) - 1]
    ELSE [raised |-> "ValueError", code |-> -1]

\* a plausible slip: the fallback of an unseen value is -1, not 0
safe_encode_minus_one(encoder, value) ==
    LET r == transform(encoder, value)
    IN  IF r.raised = "ValueError" THEN -1 ELSE r.code

\* safe_encode, lines 23-27
safe_encode(encoder, value) ==
    LET r == transform(encoder, value)
    IN  IF r.raised = "ValueError" THEN 0 ELSE r.code

\* lines 37-40
max_internal_marks == 20 * 3
max_assignment_marks == 10
max_activity_marks == 5
max_total_marks == max_internal_marks + max_assignment_marks + max_activity_marks

\* line 42
total_internal_marks(student_info) ==
    student_info["Internal_1"] + student_info["Internal_2"] + student_info["Internal_3"]

\* a plausible slip: Other_Activities left out of the total
total_marks_without_activities(student_info) ==
    total_internal_marks(student_info) + student_info["Assignment_Marks"]

\* line 43
total_marks(student_info) ==
    total_internal_marks(student_info) + student_info["Assignment_Marks"]
        + student_info["Other_Activities"]

\* line 47: (total_marks / max_total_marks) * 100, cut to hundredths; the
\* value is stored in student_data and read by nothing
performance_grade_percentage(student_info) ==
    (total_marks(student_info) * 100) \div max_total_marks

\* a plausible slip: the computed percentage selected as a 14th column
features_with_percentage ==
    << "Internal_1", "Internal_2", "Internal_3",
       "Assignment_Marks", "Other_Activities",
       "Total_Internal_Marks", "Total_Marks",
       "Gender_Encoded", "Residence_Encoded",
       "Disability_Encoded", "Attendance_Percentage",
       "Study_Hours_Per_Week", "Part_Time_Job",
       "Performance_Grade_Percentage" >>

\* lines 50-57
features ==
    << "Internal_1", "Internal_2", "Internal_3",
       "Assignment_Marks", "Other_Activities",
       "Total_Internal_Marks", "Total_Marks",
       "Gender_Encoded", "Residence_Encoded",
       "Disability_Encoded", "Attendance_Percentage",
       "Study_Hours_Per_Week", "Part_Time_Job" >>

\* lines 32-34 and 45-47: the keys written into student_data
derived_fields(student_info, encoders) ==
    [ Gender_Encoded |-> safe_encode(encoders["Gender"], student_info["Gender"]),
      Residence_Encoded |-> safe_encode(encoders["Residence"], student_info["Residence"]),
      Disability_Encoded |->
          safe_encode(encoders["Disability"], Get(student_info, "Disability", "None")),
      Total_Internal_Marks |-> total_internal_marks(student_info),
      Total_Marks |-> total_marks(student_info),
      Performance_Grade_Percentage |-> performance_grade_percentage(student_info) ]

\* student_data after lines 29-47: d with the derived keys written into it
with_derived(d, student_info, encoders) ==
    LET new == derived_fields(student_info, encoders)
    IN  [k \in (DOMAIN d) \cup (DOMAIN new) |-> IF k \in DOMAIN new THEN new[k] ELSE d[k]]

\* pd.DataFrame([student_data])[features]: one row, the columns selected
\* by name in the order of the list
DataFrame(student_data, cols) ==
    [columns |-> cols, row |-> [i \in DOMAIN cols |-> student_data[cols[i]]]]

\* a plausible slip: line 29 without .copy(), so student_data is student_info
prepare_student_data_no_copy(student_info, encoders) ==
    IF encoders = None
    THEN [raised |-> "TypeError", ret |-> None, student_info |-> student_info]
    ELSE LET student_data == with_derived(student_info, student_info, encoders)
         IN  [raised |-> "", ret |-> DataFrame(student_data, features),
              student_info |-> student_data]

\* prepare_student_data, lines 21-59.  encoders["Gender"] on None raises
\* TypeError at line 32, after the copy and before any write.
prepare_student_data(student_info, encoders) ==
    IF encoders = None
    THEN [raised |-> "TypeError", ret |-> None, student_info |-> student_info]
    ELSE LET student_data == with_derived(student_info, student_info, encoders)
         IN  [raised |-> "", ret |-> DataFrame(student_data, features),
              student_info |-> student_info]

(***************************************************************************)
(* generate_detailed_recommendations, lines 61-117.  A card is the dict    *)
(* {type, message, icon, color}; an icon is written by the name of its     *)
(* emoji.                                                                  *)
(***************************************************************************)
Card(type, message, icon, color) ==
    [type |-> type, message |-> message, icon |-> icon, color |-> color]

\* a plausible slip: a table that also holds an entry for F
grade_recommendations_with_F ==
    ( "A+" :> << Card("Excellence", "Pursue Advanced Academic Challenges", "trophy", "green"),
                    Card("Opportunity", "Consider Research or Mentorship Programs", "microscope", "green") >>
      @@ "A" :> << Card("Consistent", "Maintain High Performance, Explore Depth", "chart_increasing", "darkgreen"),
               Card("Growth", "Develop Interdisciplinary Skills", "seedling", "darkgreen") >>
      @@ "B" :> << Card("Potential", "Focus on Targeted Academic Improvement", "dart", "blue"),
               Card("Strategy", "Develop Advanced Study Techniques", "books", "blue") >>
      @@ "C" :> << Card("Alert", "Requires Comprehensive Academic Support", "warning", "orange"),
               Card("Action", "Implement Structured Learning Plan", "clipboard", "orange") >>
      @@ "D" :> << Card("Critical", "Immediate Academic Intervention Needed", "rotating_light", "red"),
               Card("Support", "Seek Personalized Tutoring", "handshake", "red") >>
      @@ "F" :> << Card("Critical", "Immediate Academic Intervention Needed", "rotating_light", "red"),
               Card("Support", "Seek Personalized Tutoring", "handshake", "red") >> )

\* lines 70-91
grade_recommendations ==
    ( "A+" :> << Card("Excellence", "Pursue Advanced Academic Challenges", "trophy", "green"),
                    Card("Opportunity", "Consider Research or Mentorship Programs", "microscope", "green") >>
      @@ "A" :> << Card("Consistent", "Maintain High Performance, Explore Depth", "chart_increasing", "darkgreen"),
               Card("Growth", "Develop Interdisciplinary Skills", "seedling", "darkgreen") >>
      @@ "B" :> << Card("Potential", "Focus on Targeted Academic Improvement", "dart", "blue"),
               Card("Strategy", "Develop Advanced Study Techniques", "books", "blue") >>
      @@ "C" :> << Card("Alert", "Requires Comprehensive Academic Support", "warning", "orange"),
               Card("Action", "Implement Structured Learning Plan", "clipboard", "orange") >>
      @@ "D" :> << Card("Critical", "Immediate Academic Intervention Needed", "rotating_light", "red"),
               Card("Support", "Seek Personalized Tutoring", "handshake", "red") >> )

\* line 93: grade_recommendations.get(predicted_grade, [])
grade_specific(predicted_grade) == Get(grade_recommendations, predicted_grade, <<>>)

\* lines 96-100
internals(student_info) ==
    << <<"Internal_1", student_info["Internal_1"]>>,
       <<"Internal_2", student_info["Internal_2"]>>,
       <<"Internal_3", student_info["Internal_3"]>> >>

\* a plausible slip: marks <= 10
is_weak_inclusive(marks) == marks <= Num(10, 0)

\* line 103
is_weak(marks) == marks < Num(10, 0)

\* line 106, the f-string
weakness_message(internal_name) ==
    CASE internal_name = "Internal_1" -> "Critical Improvement Needed in Internal_1"
      [] internal_name = "Internal_2" -> "Critical Improvement Needed in Internal_2"
      [] internal_name = "Internal_3" -> "Critical Improvement Needed in Internal_3"

\* lines 102-109: the loop over the first n entries of internals
RECURSIVE internal_analysis_upto(_, _)
internal_analysis_upto(student_info, n) ==
    IF n = 0 THEN <<>>
    ELSE LET done == internal_analysis_upto(student_info, n - 1)
             entry == internals(student_info)[n]
         IN  IF is_weak(entry[2])
             THEN Append(done, Card("Weakness", weakness_message(entry[1]), "magnifier", "red"))
             ELSE done

internal_analysis(student_info) == internal_analysis_upto(student_info, Len(internals(student_info)))

\* a plausible slip: the two generic cards in the other order
improvement_strategies_swapped ==
    << Card("Learning", "Develop Active Study Techniques", "bulb", "teal"),
       Card("Skill", "Enhance Time Management", "alarm_clock", "purple") >>

\* lines 112-115
improvement_strategies ==
    << Card("Skill", "Enhance Time Management", "alarm_clock", "purple"),
       Card("Learning", "Develop Active Study Techniques", "bulb", "teal") >>

\* generate_detailed_recommendations, lines 61-117
generate_detailed_recommendations(student_info, predicted_grade) ==
    [ ret |-> [ grade_specific |-> grade_specific(predicted_grade),
                internal_analysis |-> internal_analysis(student_info),
                improvement_strategies |-> improvement_strategies ],
      student_info |-> student_info ]

(***************************************************************************)
(* create_performance_radar, lines 119-151.  The figure is its theta and r *)
(* series.                                                                 *)
(***************************************************************************)
\* lines 121-125
categories ==
    << "Internal 1", "Internal 2", "Internal 3",
       "Assignment", "Activities",
       "Attendance", "Study Hours" >>

\* x / full * 100, lines 128-132
percent_of(x, full) == (x * 100) \div full

\* a plausible slip: the clamp of line 134 left out
study_hours_value_unclamped(hours) == (hours * 25) \div 10

\* line 134: min(hours * 2.5, 100)
study_hours_value(hours) ==
    LET scaled == (hours * 25) \div 10
    IN  IF scaled < Num(100, 0) THEN scaled ELSE Num(100, 0)

\* lines 127-135
values(student_info) ==
    << percent_of(student_info["Internal_1"], 20),
       percent_of(student_info["Internal_2"], 20),
       percent_of(student_info["Internal_3"], 20),
       percent_of(student_info["Assignment_Marks"], 10),
       percent_of(student_info["Other_Activities"], 5),
       student_info["Attendance_Percentage"],
       study_hours_value(student_info["Study_Hours_Per_Week"]) >>

\* create_performance_radar, lines 119-151
create_performance_radar(student_info) ==
    [ ret |-> [theta |-> categories, r |-> values(student_info)],
      student_info |-> student_info ]

(***************************************************************************)
(* load_model_components, lines 11-19.  What joblib.load finds on disk is  *)
(* the environment's choice: both artifacts, or FileNotFoundError on the   *)
(* first one that is missing.  The classifier is opaque; it is written by  *)
(* the name of its file.                                                   *)
(***************************************************************************)
load_model_components(model_found, encoders_found, artifact) ==
    IF model_found /\ encoders_found
    THEN [ret |-> <<<<"performance_model.joblib">>, artifact>>, error |-> <<>>]
    ELSE [ret |-> <<None, None>>,
          error |-> << <<"st.error",
                         "Model files not found. Please ensure model training is complete.">> >>]

\* the encoders an artifact can hold for a field: one fitted on every option
\* of the form, one fitted on data that lacked some of them
GenderEncoders == { <<"Female", "Male", "Other">>, <<"Male", "Female">> }
ResidenceEncoders == { <<"Rural", "Suburban", "Urban">>, <<"Urban">> }
DisabilityEncoders == { <<"Learning", "None", "Physical">>, <<"Physical", "Learning">> }

EncoderCollections ==
    { [Gender |-> g, Residence |-> r, Disability |-> d] :
        g \in GenderEncoders, r \in ResidenceEncoders, d \in DisabilityEncoders }

\* the labels model.predict can answer: the six grades and a label outside them
Grades == {"A+", "A", "B", "C", "D", "F", "E"}

(***************************************************************************)
(* The form, lines 177-192.  A widget keeps its value from one run of the  *)
(* script to the next; a number_input starts at its min_value, a selectbox *)
(* at its first option, the slider at value=80.                            *)
(***************************************************************************)
WidgetDefaults ==
    [ internal_1 |-> Num(0, 0), internal_2 |-> Num(0, 0), internal_3 |-> Num(0, 0),
      assignment_marks |-> Num(0, 0), other_activities |-> Num(0, 0),
      gender |-> "Male", residence |-> "Urban", disability |-> "None",
      attendance |-> Num(80, 0), study_hours |-> Num(0, 0), part_time_job |-> 0 ]

\* min_value and max_value of the numeric widgets, the options of the others
WidgetDomain ==
    [ internal_1 |-> Num(0, 0)..Num(20, 0), internal_2 |-> Num(0, 0)..Num(20, 0),
      internal_3 |-> Num(0, 0)..Num(20, 0),
      assignment_marks |-> Num(0, 0)..Num(10, 0), other_activities |-> Num(0, 0)..Num(5, 0),
      gender |-> {"Male", "Female", "Other"},
      residence |-> {"Urban", "Rural", "Suburban"},
      disability |-> {"None", "Physical", "Learning"},
      attendance |-> Num(0, 0)..Num(100, 0), study_hours |-> Num(0, 0)..Num(40, 0),
      part_time_job |-> {0, 1} ]

\* the values the user is taken to enter, each in its widget's domain
WidgetChoices ==
    [ internal_1 |-> {Num(0, 0), Num(9, 90), Num(10, 0), Num(20, 0)},
      internal_2 |-> {Num(0, 0), Num(9, 90), Num(10, 0)},
      internal_3 |-> {Num(0, 0), Num(9, 90), Num(10, 0)},
      assignment_marks |-> {Num(0, 0), Num(9, 0)},
      other_activities |-> {Num(0, 0), Num(4, 0)},
      gender |-> {"Male", "Other"},
      residence |-> {"Urban", "Rural"},
      disability |-> {"None", "Physical"},
      attendance |-> {Num(80, 0), Num(90, 0)},
      study_hours |-> {Num(0, 0), Num(12, 0), Num(40, 0)},
      part_time_job |-> {0, 1} ]

\* how many widgets differ from their defaults
Edited(w) == Cardinality({k \in DOMAIN w : w[k] # WidgetDefaults[k]})

\* the most widgets a session moves away from their defaults
MaxEdits == 2

\* lines 197-209
collect_student_info(w) ==
    [ Internal_1 |-> w.internal_1, Internal_2 |-> w.internal_2, Internal_3 |-> w.internal_3,
      Assignment_Marks |-> w.assignment_marks, Other_Activities |-> w.other_activities,
      Gender |-> w.gender, Residence |-> w.residence, Disability |-> w.disability,
      Attendance_Percentage |-> w.attendance, Study_Hours_Per_Week |-> w.study_hours,
      Part_Time_Job |-> w.part_time_job ]

\* lines 226-230
grade_colors ==
    ( "A+" :> "darkgreen" @@ "A" :> "green" @@ "B" :> "blue" @@ "C" :> "orange"
      @@ "D" :> "red" @@ "F" :> "darkred" )

\* lines 246-250
recommendation_sections ==
    << <<"Grade-Specific Insights", "grade_specific">>,
       <<"Internal Exam Analysis", "internal_analysis">>,
       <<"Improvement Strategies", "improvement_strategies">> >>

\* lines 255-262: the cards of one section, in the section's order
RECURSIVE render_cards(_, _)
render_cards(cards, n) ==
    IF n = 0 THEN <<>>
    ELSE Append(render_cards(cards, n - 1),
                <<"st.markdown", "card", cards[n].color, cards[n].icon,
                  cards[n].type, cards[n].message>>)

\* lines 252-262: the first n sections; an empty section renders nothing
RECURSIVE render_sections(_, _)
render_sections(recs, n) ==
    IF n = 0 THEN <<>>
    ELSE LET section == recommendation_sections[n]
             cards == recs[section[2]]
         IN  render_sections(recs, n - 1) \o
             (IF cards # <<>>
              THEN <<<<"st.subheader", section[1]>>>> \o render_cards(cards, Len(cards))
              ELSE <<>>)

\* a plausible slip: the recommendations section placed before the charts
successor_recommendations_first(at) ==
    CASE at = "line195" -> "collect"
      [] at = "collect" -> "load"
      [] at = "load"    -> "prepare"
      [] at = "prepare" -> "predict"
      [] at = "predict" -> "recommend"
      [] at = "recommend" -> "cards"
      [] at = "cards"   -> "radar"
      [] at = "radar"   -> "plotly_chart"
      [] at = "plotly_chart" -> "badge"
      [] at = "badge"   -> "done"

\* the statement that follows each statement of main's analysis section,
\* lines 195-262
successor(at) ==
    CASE at = "line195" -> "collect"
      [] at = "collect" -> "load"
      [] at = "load"    -> "prepare"
      [] at = "prepare" -> "predict"
      [] at = "predict" -> "radar"
      [] at = "radar"   -> "plotly_chart"
      [] at = "plotly_chart" -> "badge"
      [] at = "badge"   -> "recommend"
      [] at = "recommend" -> "cards"
      [] at = "cards"   -> "done"

(***************************************************************************)
(* The state.  widgets and predict_button are the form; pc is the place of *)
(* the script in main; the next six are main's locals (None or "" while    *)
(* unbound); raised is the exception that left main, "" if none; events is *)
(* what the run has done so far, in order: the calls it made and the       *)
(* elements it put on the page.                                            *)
(***************************************************************************)
VARIABLES widgets, predict_button, pc, student_info, model, encoders,
          student_features, predicted_grade, spider_chart, recommendations,
          raised, events

vars == << widgets, predict_button, pc, student_info, model, encoders,
           student_features, predicted_grade, spider_chart, recommendations,
           raised, events >>

locals == << student_info, model, encoders, student_features, predicted_grade,
             spider_chart, recommendations >>

Call(name) == <<"call", name>>

\* a run of the script starts with nothing bound and an empty page
FreshRun ==
    /\ student_info' = None
    /\ model' = None
    /\ encoders' = None
    /\ student_features' = None
    /\ predicted_grade' = ""
    /\ spider_chart' = None
    /\ recommendations' = None
    /\ raised' = ""
    /\ events' = <<>>

\* the page as first loaded: the script has run once, the button not pressed
Init ==
    /\ widgets = WidgetDefaults
    /\ predict_button = FALSE
    /\ pc = "done"
    /\ student_info = None
    /\ model = None
    /\ encoders = None
    /\ student_features = None
    /\ predicted_grade = ""
    /\ spider_chart = None
    /\ recommendations = None
    /\ raised = ""
    /\ events = <<>>

\* The user changes a widget: the script reruns down to line 192 with the
\* button not pressed.
EditWidget ==
    /\ pc = "done"
    /\ \E k \in DOMAIN widgets : \E v \in WidgetChoices[k] :
          /\ v # widgets[k]
          /\ Edited([widgets EXCEPT ![k] = v]) <= MaxEdits
          /\ widgets' = [widgets EXCEPT ![k] = v]
    /\ predict_button' = FALSE
    /\ pc' = "line195"
    /\ FreshRun

\* The user presses the button: the script reruns down to line 192 with
\* predict_button True.
PressAnalyze ==
    /\ pc = "done"
    /\ predict_button' = TRUE
    /\ pc' = "line195"
    /\ FreshRun
    /\ UNCHANGED widgets

\* line 195
IfPredictButton ==
    /\ pc = "line195"
    /\ pc' = IF predict_button THEN successor(pc) ELSE "done"
    /\ UNCHANGED << widgets, predict_button, locals, raised, events >>

\* lines 197-209
Collect ==
    /\ pc = "collect"
    /\ student_info' = collect_student_info(widgets)
    /\ pc' = successor(pc)
    /\ UNCHANGED << widgets, predict_button, model, encoders, student_features,
                    predicted_grade, spider_chart, recommendations, raised, events >>

\* line 212
Load ==
    /\ pc = "load"
    /\ \E model_found \in BOOLEAN, encoders_found \in BOOLEAN, artifact \in EncoderCollections :
          LET r == load_model_components(model_found, encoders_found, artifact)
          IN  /\ model' = r.ret[1]
              /\ encoders' = r.ret[2]
              /\ events' = (events \o <<Call("load_model_components")>>) \o r.error
    /\ pc' = successor(pc)
    /\ UNCHANGED << widgets, predict_button, student_info, student_features,
                    predicted_grade, spider_chart, recommendations, raised >>

\* line 213; an exception of the call leaves main
Prepare ==
    /\ pc = "prepare"
    /\ LET r == prepare_student_data(student_info, encoders)
       IN  /\ student_info' = r.student_info
           /\ student_features' = r.ret
           /\ raised' = r.raised
           /\ pc' = IF r.raised = "" THEN successor(pc) ELSE "done"
    /\ events' = Append(events, Call("prepare_student_data"))
    /\ UNCHANGED << widgets, predict_button, model, encoders, predicted_grade,
                    spider_chart, recommendations >>

\* line 214: the classifier answers some label; None has no predict
Predict ==
    /\ pc = "predict"
    /\ events' = Append(events, Call("model.predict"))
    /\ IF model = None
       THEN /\ raised' = "AttributeError"
            /\ pc' = "done"
            /\ UNCHANGED predicted_grade
       ELSE /\ \E grade \in Grades : predicted_grade' = grade
            /\ pc' = successor(pc)
            /\ UNCHANGED raised
    /\ UNCHANGED << widgets, predict_button, student_info, model, encoders,
                    student_features, spider_chart, recommendations >>

\* lines 217-221
Radar ==
    /\ pc = "radar"
    /\ LET r == create_performance_radar(student_info)
       IN  /\ spider_chart' = r.ret
           /\ student_info' = r.student_info
    /\ events' = events \o << <<"st.header", "Performance Radar">>,
                              Call("create_performance_radar") >>
    /\ pc' = successor(pc)
    /\ UNCHANGED << widgets, predict_button, model, encoders, student_features,
                    predicted_grade, recommendations, raised >>

\* line 222
PlotlyChart ==
    /\ pc = "plotly_chart"
    /\ events' = Append(events, <<"st.plotly_chart", "spider_chart">>)
    /\ pc' = successor(pc)
    /\ UNCHANGED << widgets, predict_button, locals, raised >>

\* lines 224-240
Badge ==
    /\ pc = "badge"
    /\ events' = events \o
          << <<"st.header", "Performance Summary">>,
             <<"st.markdown", "badge", Get(grade_colors, predicted_grade, "gray"),
               predicted_grade>> >>
    /\ pc' = successor(pc)
    /\ UNCHANGED << widgets, predict_button, locals, raised >>

\* lines 243-244
Recommend ==
    /\ pc = "recommend"
    /\ LET r == generate_detailed_recommendations(student_info, predicted_grade)
       IN  /\ recommendations' = r.ret
           /\ student_info' = r.student_info
    /\ events' = events \o << <<"st.header", "Personalized Recommendations">>,
                              Call("generate_detailed_recommendations") >>
    /\ pc' = successor(pc)
    /\ UNCHANGED << widgets, predict_button, model, encoders, student_features,
                    predicted_grade, spider_chart, raised >>

\* lines 246-262
Cards ==
    /\ pc = "cards"
    /\ events' = events \o render_sections(recommendations, Len(recommendation_sections))
    /\ pc' = successor(pc)
    /\ UNCHANGED << widgets, predict_button, locals, raised >>

Next ==
    \/ EditWidget
    \/ PressAnalyze
    \/ IfPredictButton
    \/ Collect
    \/ Load
    \/ Prepare
    \/ Predict
    \/ Radar
    \/ PlotlyChart
    \/ Badge
    \/ Recommend
    \/ Cards

Spec == Init /\ [][Next]_vars

(***************************************************************************)
(* The three functions called on their own, as a library: the argument is  *)
(* any student_info near the worked scenario, inside the form's bounds or  *)
(* not, with or without its Disability key; the encoders and the grade are *)
(* the caller's choice.  A behaviour is one call on a fresh argument.      *)
(***************************************************************************)
Scenario ==
    [ Internal_1 |-> Num(18, 0), Internal_2 |-> Num(15, 0), Internal_3 |-> Num(19, 0),
      Assignment_Marks |-> Num(9, 0), Other_Activities |-> Num(4, 0),
      Gender |-> "Male", Residence |-> "Urban", Disability |-> "None",
      Attendance_Percentage |-> Num(90, 0), Study_Hours_Per_Week |-> Num(12, 0),
      Part_Time_Job |-> 0 ]

ArgumentChoices ==
    [ Internal_1 |-> {Num(9, 90), Num(10, 0), Num(20, 0)},
      Internal_2 |-> {Num(9, 90), Num(10, 0), Num(20, 0)},
      Internal_3 |-> {Num(9, 90), Num(10, 0), Num(20, 0)},
      Assignment_Marks |-> {Num(0, 0), Num(10, 0)},
      Other_Activities |-> {Num(0, 0), Num(5, 0)},
      Gender |-> {"Female", "Other", "Nonbinary"},
      Residence |-> {"Rural", "Suburban"},
      Disability |-> {"Physical", "Learning"},
      Attendance_Percentage |-> {Num(0, 0), Num(100, 0)},
      Study_Hours_Per_Week |-> {Num(10, 0), Num(40, 0), Num(50, 0)},
      Part_Time_Job |-> {1} ]

\* the most fields an argument differs in from the scenario
MaxChanged == 3

\* the scenario with at most n fields changed, the Disability key possibly dropped
RECURSIVE Arguments(_)
Arguments(n) ==
    IF n = 0 THEN {Scenario}
    ELSE LET less == Arguments(n - 1)
         IN  less
             \cup UNION {{Put(a, k, v) : a \in less, v \in ArgumentChoices[k]} :
                           k \in DOMAIN ArgumentChoices}
             \cup {Without(a, "Disability") : a \in less}

InitCalls ==
    /\ student_info \in {a \in Arguments(MaxChanged) :
                           Cardinality({k \in DOMAIN Scenario :
                                          k \notin DOMAIN a \/ a[k] # Scenario[k]}) <= MaxChanged}
    /\ widgets = WidgetDefaults
    /\ predict_button = FALSE
    /\ pc = "call"
    /\ model = None
    /\ encoders = None
    /\ student_features = None
    /\ predicted_grade = ""
    /\ spider_chart = None
    /\ recommendations = None
    /\ raised = ""
    /\ events = <<>>

CallPrepare ==
    /\ pc = "call"
    /\ \E artifact \in EncoderCollections :
          LET r == prepare_student_data(student_info, artifact)
          IN  /\ encoders' = artifact
              /\ student_features' = r.ret
              /\ student_info' = r.student_info
              /\ raised' = r.raised
    /\ events' = <<Call("prepare_student_data")>>
    /\ pc' = "returned"
    /\ predicted_grade' = ""
    /\ spider_chart' = None
    /\ recommendations' = None
    /\ UNCHANGED << widgets, predict_button, model >>

CallRecommend ==
    /\ pc = "call"
    /\ \E grade \in Grades :
          LET r == generate_detailed_recommendations(student_info, grade)
          IN  /\ predicted_grade' = grade
              /\ recommendations' = r.ret
              /\ student_info' = r.student_info
    /\ events' = <<Call("generate_detailed_recommendations")>>
    /\ pc' = "returned"
    /\ encoders' = None
    /\ student_features' = None
    /\ spider_chart' = None
    /\ UNCHANGED << widgets, predict_button, model, raised >>

CallRadar ==
    /\ pc = "call"
    /\ LET r == create_performance_radar(student_info)
       IN  /\ spider_chart' = r.ret
           /\ student_info' = r.student_info
    /\ events' = <<Call("create_performance_radar")>>
    /\ pc' = "returned"
    /\ encoders' = None
    /\ student_features' = None
    /\ predicted_grade' = ""
    /\ recommendations' = None
    /\ UNCHANGED << widgets, predict_button, model, raised >>

NextCalls ==
    \/ CallPrepare
    \/ CallRecommend
    \/ CallRadar

SpecCalls == InitCalls /\ [][NextCalls]_vars

(***************************************************************************)
(* The properties.                                                         *)
(***************************************************************************)
LoadCall == Call("load_model_components")
ErrorShown == <<"st.error", "Model files not found. Please ensure model training is complete.">>

\* the run pressed Analyze and its load found no artifacts
ArtifactsAbsent == predict_button /\ LoadCall \in Range(events) /\ model = None

\* C1: when the artifacts are absent, an Analyze action ends with no
\* exception leaving main; the page holds only the error message, and
\* nothing after the load (feature preparation, prediction, chart, badge,
\* recommendation cards) is executed or rendered.
C1_AbsentArtifactsOnlyError ==
    ArtifactsAbsent =>
        /\ raised = ""
        /\ Range(events) \subseteq {LoadCall, ErrorShown}

ReturnedFrom(name) == pc = "returned" /\ events = <<Call(name)>>

\* C2: prepare_student_data returns one row whose columns are exactly the
\* 13 fields of the classifier, in their fixed order, for every argument
\* and every encoder collection; Performance_Grade_Percentage and the raw
\* categorical strings are not among them.
C2_FeatureColumns ==
    (ReturnedFrom("prepare_student_data") /\ raised = "") =>
        /\ student_features.columns =
              << "Internal_1", "Internal_2", "Internal_3", "Assignment_Marks",
                 "Other_Activities", "Total_Internal_Marks", "Total_Marks",
                 "Gender_Encoded", "Residence_Encoded", "Disability_Encoded",
                 "Attendance_Percentage", "Study_Hours_Per_Week", "Part_Time_Job" >>
        /\ DOMAIN student_features.row = 1..13
        /\ Range(student_features.columns) \cap
              {"Performance_Grade_Percentage", "Gender", "Residence", "Disability"} = {}

C2_Witness ==
    /\ ReturnedFrom("prepare_student_data")
    /\ Len(student_features.columns) = 13
    /\ student_info.Gender = "Nonbinary"
    /\ student_info.Internal_1 = Num(20, 0)
    /\ encoders.Residence = <<"Urban">>

\* a student_info the form can produce: every field present and inside its
\* widget's bounds
WithinForm(info) ==
    /\ DOMAIN info = DOMAIN Scenario
    /\ LET form == [ internal_1 |-> info.Internal_1, internal_2 |-> info.Internal_2,
                     internal_3 |-> info.Internal_3,
                     assignment_marks |-> info.Assignment_Marks,
                     other_activities |-> info.Other_Activities,
                     gender |-> info.Gender, residence |-> info.Residence,
                     disability |-> info.Disability,
                     attendance |-> info.Attendance_Percentage,
                     study_hours |-> info.Study_Hours_Per_Week,
                     part_time_job |-> info.Part_Time_Job ]
       IN  \A k \in DOMAIN WidgetDomain : form[k] \in WidgetDomain[k]

\* C3: for a student_info inside the form's bounds the vector has
\* Total_Internal_Marks = Internal_1 + Internal_2 + Internal_3 and
\* Total_Marks = Total_Internal_Marks + Assignment_Marks + Other_Activities,
\* and its five mark columns are the inputs unchanged; 18, 15, 19, 9, 4
\* give 52 and 65.
C3_Totals ==
    (ReturnedFrom("prepare_student_data") /\ raised = "" /\ WithinForm(student_info)) =>
        LET row == student_features.row
        IN  /\ row[1] = student_info.Internal_1
            /\ row[2] = student_info.Internal_2
            /\ row[3] = student_info.Internal_3
            /\ row[4] = student_info.Assignment_Marks
            /\ row[5] = student_info.Other_Activities
            /\ row[6] = row[1] + row[2] + row[3]
            /\ row[7] = row[6] + row[4] + row[5]
            /\ (<<row[1], row[2], row[3], row[4], row[5]>> =
                   <<Num(18, 0), Num(15, 0), Num(19, 0), Num(9, 0), Num(4, 0)>>
                => row[6] = Num(52, 0) /\ row[7] = Num(65, 0))

C3_Witness ==
    /\ ReturnedFrom("prepare_student_data")
    /\ WithinForm(student_info)
    /\ student_info.Internal_1 = Num(18, 0)
    /\ student_info.Internal_2 = Num(15, 0)
    /\ student_info.Internal_3 = Num(19, 0)
    /\ student_info.Assignment_Marks = Num(9, 0)
    /\ student_info.Other_Activities = Num(4, 0)
    /\ student_features.row[6] = Num(52, 0)
    /\ student_features.row[7] = Num(65, 0)

\* the code the vector must hold for a categorical value under an encoder
EncodedAs(encoder, value, code) ==
    IF \E i \in DOMAIN encoder : encoder[i] = value
    THEN \E i \in DOMAIN encoder : encoder[i] = value /\ code = i - 1
    ELSE code = 0

\* C4: each of Gender, Residence and Disability is encoded on its own: the
\* encoder's code when the encoder knows the value, 0 and no error when it
\* does not, whatever happens to the other two; a missing Disability key is
\* encoded as the value "None".
C4_SafeEncoding ==
    ReturnedFrom("prepare_student_data") =>
        /\ raised = ""
        /\ EncodedAs(encoders.Gender, student_info.Gender, student_features.row[8])
        /\ EncodedAs(encoders.Residence, student_info.Residence, student_features.row[9])
        /\ EncodedAs(encoders.Disability,
                     IF "Disability" \in DOMAIN student_info
                     THEN student_info.Disability ELSE "None",
                     student_features.row[10])

C4_Witness ==
    /\ ReturnedFrom("prepare_student_data")
    /\ raised = ""
    /\ student_info.Gender = "Nonbinary"
    /\ student_features.row[8] = 0
    /\ encoders.Residence = <<"Rural", "Suburban", "Urban">>
    /\ student_info.Residence = "Urban"
    /\ student_features.row[9] = 2
    /\ "Disability" \notin DOMAIN student_info
    /\ encoders.Disability = <<"Learning", "None", "Physical">>
    /\ student_features.row[10] = 1

\* the messages of a list of cards, in order
Messages(cards) == [i \in DOMAIN cards |-> cards[i].message]

\* the messages the grade-specific list must hold, by grade alone
GradeMessages ==
    ( "A+" :> <<"Pursue Advanced Academic Challenges", "Consider Research or Mentorship Programs">>
      @@ "A" :> <<"Maintain High Performance, Explore Depth", "Develop Interdisciplinary Skills">>
      @@ "B" :> <<"Focus on Targeted Academic Improvement", "Develop Advanced Study Techniques">>
      @@ "C" :> <<"Requires Comprehensive Academic Support", "Implement Structured Learning Plan">>
      @@ "D" :> <<"Immediate Academic Intervention Needed", "Seek Personalized Tutoring">> )

\* C5: grade_specific is exactly the two cards of the table, in table
\* order, for the grades A+, A, B, C, D (for A+ the first message is
\* 'Pursue Advanced Academic Challenges'), and empty, with no error, for F
\* and for any label outside the table; it is decided by the grade alone.
C5_GradeSpecific ==
    ReturnedFrom("generate_detailed_recommendations") =>
        LET cards == recommendations.grade_specific
        IN  /\ raised = ""
            /\ predicted_grade \in {"A+", "A", "B", "C", "D"} =>
                  /\ Len(cards) = 2
                  /\ Messages(cards) = GradeMessages[predicted_grade]
            /\ predicted_grade = "A+" =>
                  cards[1].message = "Pursue Advanced Academic Challenges"
            /\ predicted_grade \notin {"A+", "A", "B", "C", "D"} => cards = <<>>

C5_Witness ==
    /\ ReturnedFrom("generate_detailed_recommendations")
    /\ predicted_grade = "F"
    /\ recommendations.grade_specific = <<>>
    /\ student_info.Internal_1 = Num(9, 90)
    /\ raised = ""

\* the internal exams whose score is strictly below 10, in exam order
WeakExams(info) ==
    SelectSeq(<<"Internal_1", "Internal_2", "Internal_3">>, LAMBDA name : info[name] < Num(10, 0))

\* C6: internal_analysis holds one Weakness card naming Internal_k exactly
\* when Internal_k < 10 (a score of 10 gives none), at most one per exam,
\* in the order Internal_1, Internal_2, Internal_3, whatever the grade.
C6_InternalAnalysis ==
    ReturnedFrom("generate_detailed_recommendations") =>
        LET cards == recommendations.internal_analysis
            weak == WeakExams(student_info)
        IN  /\ Len(cards) = Len(weak)
            /\ \A i \in DOMAIN cards :
                  /\ cards[i].type = "Weakness"
                  /\ cards[i].message =
                        (CASE weak[i] = "Internal_1" -> "Critical Improvement Needed in Internal_1"
                           [] weak[i] = "Internal_2" -> "Critical Improvement Needed in Internal_2"
                           [] weak[i] = "Internal_3" -> "Critical Improvement Needed in Internal_3")

C6_Witness ==
    /\ ReturnedFrom("generate_detailed_recommendations")
    /\ student_info.Internal_1 = Num(10, 0)
    /\ student_info.Internal_2 = Num(9, 90)
    /\ student_info.Internal_3 = Num(9, 90)
    /\ Messages(recommendations.internal_analysis) =
          << "Critical Improvement Needed in Internal_2",
             "Critical Improvement Needed in Internal_3" >>

\* C7: the result has exactly the keys grade_specific, internal_analysis
\* and improvement_strategies, and improvement_strategies is always
\* 'Enhance Time Management' then 'Develop Active Study Techniques', for
\* every input and every grade, in the table or not.
C7_FixedKeysAndStrategies ==
    ReturnedFrom("generate_detailed_recommendations") =>
        /\ DOMAIN recommendations =
              {"grade_specific", "internal_analysis", "improvement_strategies"}
        /\ Messages(recommendations.improvement_strategies) =
              <<"Enhance Time Management", "Develop Active Study Techniques">>

C7_Witness ==
    /\ ReturnedFrom("generate_detailed_recommendations")
    /\ predicted_grade = "E"
    /\ recommendations.grade_specific = <<>>
    /\ Len(recommendations.improvement_strategies) = 2
    /\ student_info.Internal_3 = Num(9, 90)

\* C8: the radar holds seven values in the order Internal 1, Internal 2,
\* Internal 3, Assignment, Activities, Attendance, Study Hours: the marks
\* as percentages of 20, 20, 20, 10 and 5, the attendance unchanged, and
\* min(hours * 2.5, 100), which never exceeds 100 (50 hours give 100, 10
\* hours give 25); inside the form's bounds all seven lie in [0, 100].
C8_RadarValues ==
    ReturnedFrom("create_performance_radar") =>
        LET r == spider_chart.r
            hours == student_info.Study_Hours_Per_Week
        IN  /\ spider_chart.theta =
                  << "Internal 1", "Internal 2", "Internal 3", "Assignment",
                     "Activities", "Attendance", "Study Hours" >>
            /\ DOMAIN r = 1..7
            /\ r[1] * 20 = student_info.Internal_1 * 100
            /\ r[2] * 20 = student_info.Internal_2 * 100
            /\ r[3] * 20 = student_info.Internal_3 * 100
            /\ r[4] * 10 = student_info.Assignment_Marks * 100
            /\ r[5] * 5 = student_info.Other_Activities * 100
            /\ r[6] = student_info.Attendance_Percentage
            /\ IF hours * 25 <= Num(100, 0) * 10
               THEN r[7] * 10 = hours * 25
               ELSE r[7] = Num(100, 0)
            /\ r[7] <= Num(100, 0)
            /\ hours = Num(50, 0) => r[7] = Num(100, 0)
            /\ hours = Num(10, 0) => r[7] = Num(25, 0)
            /\ student_info.Internal_1 = Num(20, 0) => r[1] = Num(100, 0)
            /\ WithinForm(student_info) =>
                  \A i \in 1..7 : Num(0, 0) <= r[i] /\ r[i] <= Num(100, 0)

C8_Witness ==
    /\ ReturnedFrom("create_performance_radar")
    /\ student_info.Study_Hours_Per_Week = Num(50, 0)
    /\ spider_chart.r[7] = Num(100, 0)
    /\ student_info.Internal_1 = Num(20, 0)
    /\ spider_chart.r[1] = Num(100, 0)

\* the pipeline step an event belongs to, 0 for a heading or the error
\* message: 1 load, 2 prepare, 3 predict, 4 build the radar, 5 render it,
\* 6 the grade badge, 7 build the recommendations, 8 render their cards
StepOf(e) ==
    CASE e = Call("load_model_components") -> 1
      [] e = Call("prepare_student_data") -> 2
      [] e = Call("model.predict") -> 3
      [] e = Call("create_performance_radar") -> 4
      [] e[1] = "st.plotly_chart" -> 5
      [] e[1] = "st.markdown" /\ e[2] = "badge" -> 6
      [] e = Call("generate_detailed_recommendations") -> 7
      [] e[1] = "st.subheader" \/ (e[1] = "st.markdown" /\ e[2] = "card") -> 8
      [] OTHER -> 0

StepsDone == {StepOf(events[i]) : i \in DOMAIN events} \ {0}

\* the run pressed Analyze and its load found both artifacts
ArtifactsPresent == predict_button /\ LoadCall \in Range(events) /\ model # None

\* C9: an Analyze action with the artifacts present runs load, prepare,
\* predict, radar chart built and rendered, grade badge, recommendations
\* built, cards rendered, in that order, each once; the load is done anew
\* in every action (nothing is kept from the run before); the pipeline
\* runs to its end; and a run in which the button was not pressed runs no
\* step at all.
C9_PipelineOrder ==
    /\ \A i, j \in DOMAIN events :
          (i < j /\ StepOf(events[i]) # 0 /\ StepOf(events[j]) # 0) =>
              \/ StepOf(events[i]) < StepOf(events[j])
              \/ StepOf(events[i]) = 8 /\ StepOf(events[j]) = 8
    /\ \A n \in StepsDone : 1..n \subseteq StepsDone
    /\ pc = "line195" => model = None /\ encoders = None /\ events = <<>>
    /\ ArtifactsPresent =>
          /\ raised = ""
          /\ pc # "done" => ENABLED Next
          /\ pc = "done" => StepsDone = 1..8
    /\ ~predict_button => events = <<>> /\ student_features = None
                          /\ spider_chart = None /\ recommendations = None

C9_Witness ==
    /\ ArtifactsPresent
    /\ pc = "done"
    /\ StepsDone = 1..8
    /\ predicted_grade = "F"
    /\ Len(recommendations.internal_analysis) = 2

\* the raw input of the form, field by field
RawInput ==
    [ Internal_1 |-> widgets.internal_1, Internal_2 |-> widgets.internal_2,
      Internal_3 |-> widgets.internal_3, Assignment_Marks |-> widgets.assignment_marks,
      Other_Activities |-> widgets.other_activities, Gender |-> widgets.gender,
      Residence |-> widgets.residence, Disability |-> widgets.disability,
      Attendance_Percentage |-> widgets.attendance,
      Study_Hours_Per_Week |-> widgets.study_hours, Part_Time_Job |-> widgets.part_time_job ]

\* C10: prepare_student_data, generate_detailed_recommendations and
\* create_performance_radar leave the student_info they are given as it
\* was, same keys and same values (the derived fields go to a copy), so
\* the chart and the recommendations of an Analyze action are those of the
\* raw input the user entered.
C10_StudentInfoUnchanged ==
    /\ [][(pc \in {"prepare", "radar", "recommend"}) => student_info' = student_info]_vars
    /\ [](student_info # None => student_info = RawInput)
    /\ [](spider_chart # None => spider_chart = create_performance_radar(RawInput).ret)
    /\ [](recommendations # None =>
             recommendations = generate_detailed_recommendations(RawInput, predicted_grade).ret)

C10_Witness ==
    /\ ArtifactsPresent
    /\ pc = "done"
    /\ student_info = RawInput
    /\ widgets.internal_1 = Num(9, 90)
    /\ widgets.study_hours = Num(40, 0)
    /\ DOMAIN student_info = DOMAIN Scenario
    /\ spider_chart.r[7] = Num(100, 0)
    /\ Len(recommendations.internal_analysis) = 3

=============================================================================
